---------------------------- MODULE Spec2Model ----------------------------
(***************************************************************************)
(* fintools: the rate & compounding engine (compound_interest.py) and its  *)
(* command-line surface (cli.py).                                          *)
(*                                                                         *)
(* The engine is floating-point arithmetic.  Python floats are IEEE-754    *)
(* binary64; the model keeps the IEEE-754 binary format, round-to-nearest  *)
(* ties-to-even, gradual underflow, +inf and nan, and scales the format    *)
(* down: MantBits bits of significand instead of 53, exponents EMin..EMax  *)
(* instead of -1022..1023.  A value is a record [k, m, e]: k = "fin" is    *)
(* the number m * 2^e (m odd, or m = 0 and e = 0), k = "inf" is +inf and   *)
(* k = "nan" is a nan.                                                     *)
(***************************************************************************)
EXTENDS Integers, Sequences, FiniteSets, TLC

\* Bits of significand of the float format (binary64 has 53).
MantBits == 4
\* Largest and smallest exponent of a normal float; as in binary64 the
\* range is wider than the significand, so that 1 + x neither overflows for
\* the largest x nor is exact for the smallest.
EMax == MantBits + 2
EMin == 0 - (MantBits + 2)
\* Bits of significand libm carries internally in pow and exp.
WorkBits == 2 * MantBits + 5

Max(a, b) == IF a >= b THEN a ELSE b
Min(a, b) == IF a <= b THEN a ELSE b

RECURSIVE BitLen(_)
BitLen(n) == IF n = 0 THEN 0 ELSE 1 + BitLen(n \div 2)

---------------------------------------------------------------------------
(* Values *)

Fin(m, e) == [k |-> "fin", m |-> m, e |-> e]
Zero == Fin(0, 0)
One == Fin(1, 0)
Inf == [k |-> "inf", m |-> 1, e |-> 0]
NaN == [k |-> "nan", m |-> 0, e |-> 0]

IsFin(x) == x.k = "fin"
IsInf(x) == x.k = "inf"
IsNaN(x) == x.k = "nan"

Neg(x) == IF IsFin(x) THEN Fin(0 - x.m, x.e) ELSE x

RECURSIVE CanonPos(_, _)
CanonPos(m, e) ==
    IF m = 0 THEN Zero
    ELSE IF m % 2 = 0 THEN CanonPos(m \div 2, e + 1)
    ELSE Fin(m, e)

\* The number m * 2^e in canonical form (no rounding).
Canon(m, e) == IF m < 0 THEN Neg(CanonPos(0 - m, e)) ELSE CanonPos(m, e)

\* A Python int, converted to float exactly (small ints are exact in binary64).
IntVal(n) == Canon(n, 0)

\* The exponent of the leading bit of a finite non-zero value.
TopExp(x) == x.e + BitLen(IF x.m < 0 THEN 0 - x.m ELSE x.m) - 1

\* The quotient m / d rounded to an integer, ties to even.
HalfEven(m, d) ==
    IF 2 * (m % d) > d \/ (2 * (m % d) = d /\ (m \div d) % 2 = 1)
    THEN (m \div d) + 1
    ELSE m \div d

\* The float mq * 2^qe (mq has at most MantBits + 1 bits): +inf at and above
\* 2^(EMax+1).
Finish(mq, qe) ==
    IF mq = 0 THEN Zero
    ELSE IF qe + BitLen(mq) - 1 > EMax THEN Inf
    ELSE CanonPos(mq, qe)

\* m * 2^e with leading bit 2^E, rounded to multiples of 2^qe.
RoundTo(m, e, E, qe) ==
    IF e >= qe THEN (IF E > EMax THEN Inf ELSE CanonPos(m, e))
    ELSE Finish(HalfEven(m, 2 ^ (qe - e)), qe)

\* The unit in the last place of a number with leading bit 2^E: subnormal
\* below 2^EMin.
RoundAt(m, e, E) == RoundTo(m, e, E, Max(E, EMin) - MantBits + 1)

\* Round the positive number m * 2^e to the format: nearest, ties to even,
\* subnormal below 2^EMin, +inf at and above 2^(EMax+1).
RoundPos(m, e) == IF m = 0 THEN Zero ELSE RoundAt(m, e, e + BitLen(m) - 1)

Round(m, e) == IF m < 0 THEN Neg(RoundPos(0 - m, e)) ELSE RoundPos(m, e)

\* Is the finite value x a float of the format?
IsFloat(x) == IsFin(x) /\ Round(x.m, x.e) = x

\* Exact comparisons of finite values (Python's <, <=, == on floats).
Diff(a, b) ==
    a.m * (2 ^ (a.e - Min(a.e, b.e))) - b.m * (2 ^ (b.e - Min(a.e, b.e)))

FLess(a, b) ==
    CASE IsNaN(a) \/ IsNaN(b) -> FALSE
      [] IsInf(a) -> FALSE
      [] IsInf(b) -> TRUE
      [] OTHER -> Diff(a, b) < 0

FLeq(a, b) ==
    CASE IsNaN(a) \/ IsNaN(b) -> FALSE
      [] IsInf(b) -> TRUE
      [] IsInf(a) -> FALSE
      [] OTHER -> Diff(a, b) <= 0

---------------------------------------------------------------------------
(* Float arithmetic: the exact result, rounded once. *)

\* a + b
FAdd(a, b) ==
    CASE IsNaN(a) \/ IsNaN(b) -> NaN
      [] IsInf(a) \/ IsInf(b) -> Inf
      [] OTHER -> Round(a.m * (2 ^ (a.e - Min(a.e, b.e))) + b.m * (2 ^ (b.e - Min(a.e, b.e))),
                        Min(a.e, b.e))

\* a - b
FSub(a, b) ==
    CASE IsNaN(a) \/ IsNaN(b) -> NaN
      [] IsInf(a) /\ IsInf(b) -> NaN
      [] IsInf(a) -> Inf
      [] IsInf(b) -> NaN
      [] OTHER -> Round(Diff(a, b), Min(a.e, b.e))

\* a * b, for a, b >= 0
FMul(a, b) ==
    CASE IsNaN(a) \/ IsNaN(b) -> NaN
      [] IsInf(a) -> IF b = Zero THEN NaN ELSE Inf
      [] IsInf(b) -> IF a = Zero THEN NaN ELSE Inf
      [] OTHER -> Round(a.m * b.m, a.e + b.e)

\* num / den * 2^(e+1) for integers num >= 0, den > 0: the integer quotient
\* and a sticky bit, rounded.
DivQ(num, den, e) ==
    RoundPos(2 * (num \div den) + (IF num % den = 0 THEN 0 ELSE 1), e)

\* a / b, for b > 0: the quotient to 2 * MantBits + 1 bits, rounded.
FDiv(a, b) ==
    CASE IsNaN(a) \/ IsNaN(b) -> NaN
      [] IsInf(a) -> IF IsInf(b) THEN NaN ELSE Inf
      [] IsInf(b) -> Zero
      [] OTHER ->
           IF a.m < 0
           THEN Neg(DivQ((0 - a.m) * (2 ^ (2 * MantBits + 1)), b.m,
                         a.e - b.e - (2 * MantBits + 1) - 1))
           ELSE DivQ(a.m * (2 ^ (2 * MantBits + 1)), b.m,
                     a.e - b.e - (2 * MantBits + 1) - 1)

---------------------------------------------------------------------------
(* libm: pow and exp.  The C library computes them in a wider significand  *)
(* (WorkBits bits) and rounds the result to the format, so the result is   *)
(* within one unit in the last place of the true value.  A work value is   *)
(* [m, e] with 2^(WorkBits-1) <= m < 2^WorkBits, or WOver once the value   *)
(* has left the range of the format.                                      *)

WOver == [m |-> 0, e |-> 0]

\* q * 2^e for WorkBits-bit q, or 2^WorkBits after a carry.
WCarry(q, e) ==
    IF q = 2 ^ WorkBits THEN [m |-> q \div 2, e |-> e + 1] ELSE [m |-> q, e |-> e]

\* m * 2^e, where m has bl bits, to WorkBits bits, nearest.
WNormBits(m, e, bl) ==
    IF bl <= WorkBits THEN [m |-> m * (2 ^ (WorkBits - bl)), e |-> e - (WorkBits - bl)]
    ELSE WCarry((m + 2 ^ (bl - WorkBits - 1)) \div (2 ^ (bl - WorkBits)), e + bl - WorkBits)

\* m * 2^e (m > 0) to WorkBits bits, nearest.
WNorm(m, e) == WNormBits(m, e, BitLen(m))

\* A work value that has left the range of the format is WOver.
WClip(r) == IF r.e + WorkBits - 1 > EMax + 1 THEN WOver ELSE r

WMul(a, b) ==
    IF a = WOver \/ b = WOver THEN WOver
    ELSE WClip(WNorm(a.m * b.m, a.e + b.e))

RECURSIVE ISqrtIn(_, _, _)
ISqrtIn(n, lo, hi) ==
    IF lo >= hi THEN lo
    ELSE LET mid == (lo + hi + 1) \div 2
         IN  IF mid * mid <= n THEN ISqrtIn(n, mid, hi) ELSE ISqrtIn(n, lo, mid - 1)

\* floor(sqrt(n)) for n < 2^(2 * WorkBits)
ISqrt(n) == ISqrtIn(n, 0, 2 ^ WorkBits - 1)

\* sqrt(m * 2^e) for even e, truncated.  WorkBits is odd, so WorkBits - 1 is even.
WSqrtEven(m, e) ==
    [m |-> ISqrt(m * (2 ^ (WorkBits - 1))), e |-> (e - (WorkBits - 1)) \div 2]

\* sqrt(a), truncated.
WSqrt(a) ==
    IF a.e % 2 = 1 THEN WSqrtEven(2 * a.m, a.e - 1) ELSE WSqrtEven(a.m, a.e)

RECURSIVE WSqrtN(_, _)
WSqrtN(a, n) == IF n = 0 THEN a ELSE WSqrtN(WSqrt(a), n - 1)

WSquare(h) == WMul(h, h)

\* a^n for an integer n >= 1, by squaring.
RECURSIVE WPowInt(_, _)
WPowInt(a, n) ==
    IF n = 1 THEN a
    ELSE IF n % 2 = 1 THEN WMul(WSquare(WPowInt(a, n \div 2)), a)
    ELSE WSquare(WPowInt(a, n \div 2))

\* a^y for a work value a > 1 and a finite value y > 0, y = ky * 2^ey.
WPow(a, y) ==
    IF y.e < 0 THEN WPowInt(WSqrtN(a, 0 - y.e), y.m)
    ELSE IF TopExp(y) > EMax + MantBits + 1 THEN WOver
    ELSE WPowInt(a, y.m * (2 ^ y.e))

\* The work value rounded to the format; Inf when it is out of range.
WToFloat(w) == IF w = WOver THEN Inf ELSE RoundPos(w.m, w.e)

\* The C library's pow(x, y) for finite x > 1, y > 0: the float, or Inf
\* with errno = ERANGE when the result overflows.
LibmPow(x, y) == WToFloat(WPow(WNorm(x.m, x.e), y))

\* e = 2.71828..., to 15 bits.
EulerNum == WNorm(22268, 0 - 13)

\* The C library's exp(x) for finite x > 0.
LibmExp(x) == WToFloat(WPow(EulerNum, x))

---------------------------------------------------------------------------
(* Python's float operators that can raise.  A raised exception is the     *)
(* record Raise(type, message); a returned value is Ok(value).             *)

Ok(v) == [tag |-> "ok", val |-> v, msg |-> ""]
Raise(t, s) == [tag |-> t, val |-> NaN, msg |-> s]
IsOk(r) == r.tag = "ok"

\* A range error of libm is raised as OverflowError.
RangeChecked(r, s) == IF IsInf(r) THEN Raise("OverflowError", s) ELSE Ok(r)

\* x ** y (CPython float_pow) for x >= 1 or nan, y >= 0 or nan: the special
\* cases are decided first, libm pow is called last.
PyPow(x, y) ==
    CASE y = Zero -> Ok(One)
      [] y # Zero /\ IsNaN(x) -> Ok(NaN)
      [] y # Zero /\ ~IsNaN(x) /\ IsNaN(y) -> Ok(IF x = One THEN One ELSE NaN)
      [] IsInf(y) /\ ~IsNaN(x) -> Ok(IF x = One THEN One ELSE Inf)
      [] IsFin(y) /\ y # Zero /\ IsInf(x) -> Ok(Inf)
      [] IsFin(y) /\ y # Zero /\ x = One -> Ok(One)
      [] OTHER -> RangeChecked(LibmPow(x, y), "Numerical result out of range")

\* math.exp(x) for x >= 0 or nan: OverflowError when a finite x gives inf.
MathExp(x) ==
    CASE IsNaN(x) -> Ok(NaN)
      [] IsInf(x) -> Ok(Inf)
      [] x = Zero -> Ok(One)
      [] OTHER -> RangeChecked(LibmExp(x), "math range error")

\* An exception raised inside an expression ends the expression; otherwise
\* the operation goes on with the value: pw - 1, p * pw, fv / pw.
MinusOne(pw) == IF IsOk(pw) THEN Ok(FSub(pw.val, One)) ELSE pw
Times(p, pw) == IF IsOk(pw) THEN Ok(FMul(p, pw.val)) ELSE pw
Over(fv, pw) == IF IsOk(pw) THEN Ok(FDiv(fv, pw.val)) ELSE pw

---------------------------------------------------------------------------
(* The engine: compound_interest.py.  Rates, amounts and years are floats, *)
(* compounding_frequency is an int.                                        *)

annual_to_monthly_rate(annual_rate) ==
    IF FLess(annual_rate, Zero) THEN Raise("ValueError", "annual rate must be >= 0")
    ELSE MinusOne(PyPow(FAdd(One, annual_rate), FDiv(One, IntVal(12))))

monthly_to_annual_rate(monthly_rate) ==
    IF FLess(monthly_rate, Zero) THEN Raise("ValueError", "monthly rate must be >= 0")
    ELSE MinusOne(PyPow(FAdd(One, monthly_rate), IntVal(12)))

\* compound_interest with the frequency test written "< 0": a frequency of 0
\* reaches the division, which raises ZeroDivisionError.
compound_interest_FreqLt0(principal, annual_rate, years, compounding_frequency) ==
    IF FLess(principal, Zero) THEN Raise("ValueError", "principal must be >= 0")
    ELSE IF FLess(annual_rate, Zero) THEN Raise("ValueError", "annual rate must be >= 0")
    ELSE IF FLess(years, Zero) THEN Raise("ValueError", "years must be >= 0")
    ELSE IF compounding_frequency < 0
         THEN Raise("ValueError", "compounding frequency must be >= 1")
    ELSE IF compounding_frequency = 0
         THEN Raise("ZeroDivisionError", "float division by zero")
    ELSE LET rate_per_period == FDiv(annual_rate, IntVal(compounding_frequency))
             total_periods   == FMul(IntVal(compounding_frequency), years)
         IN  Times(principal, PyPow(FAdd(One, rate_per_period), total_periods))

\* compound_interest with total_periods = compounding_frequency + years.
compound_interest_AddPeriods(principal, annual_rate, years, compounding_frequency) ==
    IF FLess(principal, Zero) THEN Raise("ValueError", "principal must be >= 0")
    ELSE IF FLess(annual_rate, Zero) THEN Raise("ValueError", "annual rate must be >= 0")
    ELSE IF FLess(years, Zero) THEN Raise("ValueError", "years must be >= 0")
    ELSE IF compounding_frequency <= 0
         THEN Raise("ValueError", "compounding frequency must be >= 1")
    ELSE LET rate_per_period == FDiv(annual_rate, IntVal(compounding_frequency))
             total_periods   == FAdd(IntVal(compounding_frequency), years)
         IN  Times(principal, PyPow(FAdd(One, rate_per_period), total_periods))

compound_interest(principal, annual_rate, years, compounding_frequency) ==
    IF FLess(principal, Zero) THEN Raise("ValueError", "principal must be >= 0")
    ELSE IF FLess(annual_rate, Zero) THEN Raise("ValueError", "annual rate must be >= 0")
    ELSE IF FLess(years, Zero) THEN Raise("ValueError", "years must be >= 0")
    ELSE IF compounding_frequency <= 0
         THEN Raise("ValueError", "compounding frequency must be >= 1")
    ELSE LET rate_per_period == FDiv(annual_rate, IntVal(compounding_frequency))
             total_periods   == FMul(IntVal(compounding_frequency), years)
         IN  Times(principal, PyPow(FAdd(One, rate_per_period), total_periods))

\* future_value that does not pass the frequency on (the default, 1, is used).
future_value_DefaultFreq(principal, annual_rate, years, compounding_frequency) ==
    compound_interest(principal, annual_rate, years, 1)

future_value(principal, annual_rate, years, compounding_frequency) ==
    compound_interest(principal, annual_rate, years, compounding_frequency)

present_value(future_value_amount, annual_rate, years, compounding_frequency) ==
    IF FLess(future_value_amount, Zero) THEN Raise("ValueError", "future value must be >= 0")
    ELSE IF FLess(annual_rate, Zero) THEN Raise("ValueError", "annual rate must be >= 0")
    ELSE IF FLess(years, Zero) THEN Raise("ValueError", "years must be >= 0")
    ELSE IF compounding_frequency <= 0
         THEN Raise("ValueError", "compounding frequency must be >= 1")
    ELSE LET rate_per_period == FDiv(annual_rate, IntVal(compounding_frequency))
             total_periods   == FMul(IntVal(compounding_frequency), years)
         IN  Over(future_value_amount, PyPow(FAdd(One, rate_per_period), total_periods))

\* effective_annual_rate without the final "- 1".
effective_annual_rate_NoMinusOne(nominal_annual_rate, compounding_frequency) ==
    IF FLess(nominal_annual_rate, Zero) THEN Raise("ValueError", "nominal rate must be >= 0")
    ELSE IF compounding_frequency <= 0
         THEN Raise("ValueError", "compounding frequency must be >= 1")
    ELSE PyPow(FAdd(One, FDiv(nominal_annual_rate, IntVal(compounding_frequency))),
               IntVal(compounding_frequency))

effective_annual_rate(nominal_annual_rate, compounding_frequency) ==
    IF FLess(nominal_annual_rate, Zero) THEN Raise("ValueError", "nominal rate must be >= 0")
    ELSE IF compounding_frequency <= 0
         THEN Raise("ValueError", "compounding frequency must be >= 1")
    ELSE MinusOne(PyPow(FAdd(One, FDiv(nominal_annual_rate, IntVal(compounding_frequency))),
                        IntVal(compounding_frequency)))

continuous_compounding(principal, annual_rate, years) ==
    IF FLess(principal, Zero) THEN Raise("ValueError", "principal must be >= 0")
    ELSE IF FLess(annual_rate, Zero) THEN Raise("ValueError", "annual rate must be >= 0")
    ELSE IF FLess(years, Zero) THEN Raise("ValueError", "years must be >= 0")
    ELSE Times(principal, MathExp(FMul(annual_rate, years)))

---------------------------------------------------------------------------
(* The command-line surface: cli.py.  A printed line is a record: its      *)
(* label, how the number was formatted, and the digits printed (n, in      *)
(* units of 10^-d for a fixed-point format with d decimals; m and e of the *)
(* float for a repr).                                                      *)

\* m / den rounded to an integer, as the digits of a fixed-point number.
Digits(m, den) == [k |-> "fin", n |-> HalfEven(m, den)]

\* f"{x:.{d}f}" for x >= 0: x rounded to d decimals, ties to even, as the
\* count of units of 10^-d; "inf" and "nan" print as words.
Fixed(x, d) ==
    IF ~IsFin(x) THEN [k |-> x.k, n |-> 0]
    ELSE IF x.e >= 0 THEN [k |-> "fin", n |-> x.m * (10 ^ d) * (2 ^ x.e)]
    ELSE Digits(x.m * (10 ^ d), 2 ^ (0 - x.e))

Line(label, fmt, f, e) == [label |-> label, fmt |-> fmt, k |-> f.k, n |-> f.n, e |-> e]

format_percentage(label, rate, decimal_places) ==
    Line(label, "percent", Fixed(FMul(rate, IntVal(100)), decimal_places), 0 - decimal_places)

format_currency(label, amount) == Line(label, "currency", Fixed(amount, 0), 0)

\* f"{years}": the repr of a float identifies the float.
ReprLine(label, x) == [label |-> label, fmt |-> "repr", k |-> x.k, n |-> x.m, e |-> x.e]
IntLine(label, i) == [label |-> label, fmt |-> "int", k |-> "fin", n |-> i, e |-> 0]

\* print(f"error: {e}", file=sys.stderr)
ErrLine(s) == [label |-> "error", fmt |-> "str", k |-> s, n |-> 0, e |-> 0]

\* What a process has done when it ends: the engine call's outcome, the
\* lines on standard output and on the error stream, the exit status.
Proc(r, out, err, st) == [call |-> r, stdout |-> out, stderr |-> err, status |-> st]

\* A handler that prints the message and returns instead of exiting.
OnError_NoExit(r) ==
    IF r.tag = "ValueError" THEN Proc(r, << >>, <<ErrLine(r.msg)>>, 0)
    ELSE Proc(r, << >>, <<ErrLine("Traceback")>>, 1)

\* The except clause of the four handlers, and what Python does with an
\* exception no handler catches (traceback on the error stream, status 1).
OnError(r) ==
    IF r.tag = "ValueError" THEN Proc(r, << >>, <<ErrLine(r.msg)>>, 1)
    ELSE Proc(r, << >>, <<ErrLine("Traceback")>>, 1)

\* The body of each handler after its engine call has ended with outcome r;
\* rate is the rate passed to the engine, args.<rate> / 100.
TryAnnualToMonthly(a, rate, r) ==
    IF IsOk(r)
    THEN Proc(r, <<format_percentage("annual", rate, 2),
                   format_percentage("monthly", r.val, 4)>>, << >>, 0)
    ELSE OnError(r)

TryMonthlyToAnnual(a, rate, r) ==
    IF IsOk(r)
    THEN Proc(r, <<format_percentage("monthly", rate, 4),
                   format_percentage("annual", r.val, 2)>>, << >>, 0)
    ELSE OnError(r)

TryCompound(a, rate, r) ==
    IF IsOk(r)
    THEN Proc(r, <<format_currency("principal", a.principal),
                   format_percentage("annual", rate, 2),
                   ReprLine("years", a.years),
                   IntLine("frequency", a.frequency),
                   format_currency("future value", r.val),
                   format_currency("interest", FSub(r.val, a.principal))>>, << >>, 0)
    ELSE OnError(r)

\* A handler that also prints the discount, future value - present value.
TryPresentValue_Discount(a, rate, r) ==
    IF IsOk(r)
    THEN Proc(r, <<format_currency("future value", a.principal),
                   format_percentage("annual", rate, 2),
                   ReprLine("years", a.years),
                   IntLine("frequency", a.frequency),
                   format_currency("present value", r.val),
                   format_currency("discount", FSub(a.principal, r.val))>>, << >>, 0)
    ELSE OnError(r)

TryPresentValue(a, rate, r) ==
    IF IsOk(r)
    THEN Proc(r, <<format_currency("future value", a.principal),
                   format_percentage("annual", rate, 2),
                   ReprLine("years", a.years),
                   IntLine("frequency", a.frequency),
                   format_currency("present value", r.val)>>, << >>, 0)
    ELSE OnError(r)

\* parser.parse_args(): the namespace of a command line a whose
\* -f/--frequency flag is given or not (default=1).
parse_args(a, given) == IF given THEN a ELSE [a EXCEPT !.frequency = 1]

\* An engine call: the operation and its actual arguments, in order.
EngineCall(name, actuals) == [name |-> name, actuals |-> actuals]

\* The outcome of an engine call.
Invoke(c) ==
    CASE c.name = "annual_to_monthly_rate" -> annual_to_monthly_rate(c.actuals[1])
      [] c.name = "monthly_to_annual_rate" -> monthly_to_annual_rate(c.actuals[1])
      [] c.name = "compound_interest" ->
             compound_interest(c.actuals[1], c.actuals[2], c.actuals[3], c.actuals[4])
      [] c.name = "present_value" ->
             present_value(c.actuals[1], c.actuals[2], c.actuals[3], c.actuals[4])

\* The engine call of each handler.  a is the namespace: its amount
\* (principal or future_value), its rate in percent (annual_rate or
\* monthly_rate), years and frequency.
AnnualToMonthlyCall(a) ==
    EngineCall("annual_to_monthly_rate", <<FDiv(a.annual_rate, IntVal(100))>>)

MonthlyToAnnualCall(a) ==
    EngineCall("monthly_to_annual_rate", <<FDiv(a.annual_rate, IntVal(100))>>)

\* A handler that passes the rate as the user typed it, in percent.
CompoundCall_Percent(a) ==
    EngineCall("compound_interest", <<a.principal, a.annual_rate, a.years, a.frequency>>)

CompoundCall(a) ==
    EngineCall("compound_interest",
               <<a.principal, FDiv(a.annual_rate, IntVal(100)), a.years, a.frequency>>)

PresentValueCall(a) ==
    EngineCall("present_value",
               <<a.principal, FDiv(a.annual_rate, IntVal(100)), a.years, a.frequency>>)

\* The four handlers: the engine call, then the rest of the body.
cmd_annual_to_monthly(a) ==
    TryAnnualToMonthly(a, FDiv(a.annual_rate, IntVal(100)), Invoke(AnnualToMonthlyCall(a)))

cmd_monthly_to_annual(a) ==
    TryMonthlyToAnnual(a, FDiv(a.annual_rate, IntVal(100)), Invoke(MonthlyToAnnualCall(a)))

cmd_compound_interest(a) ==
    TryCompound(a, FDiv(a.annual_rate, IntVal(100)), Invoke(CompoundCall(a)))

cmd_present_value(a) ==
    TryPresentValue(a, FDiv(a.annual_rate, IntVal(100)), Invoke(PresentValueCall(a)))

---------------------------------------------------------------------------
(* Inputs.  Arguments are finite floats (the real numbers of the data      *)
(* model) and small ints; inf and nan arise only as results.               *)

MaxFloat == Fin(2 ^ MantBits - 1, EMax - MantBits + 1)
MinFloat == Fin(1, EMin - MantBits + 1)
\* The largest float that 1 + x rounds away.
Absorbed == Fin(1, 0 - (MantBits + 1))

\* Every finite float >= 0 of the format.
NonNegFloats ==
    {Canon(m, e) : m \in 0 .. (2 ^ MantBits - 1), e \in (EMin - MantBits + 1) .. (EMax - MantBits + 1)}

Amounts == {Neg(One), Zero, MinFloat, One, Fin(3, 0), MaxFloat}
Rates   == {Neg(Fin(1, 0 - 3)), Zero, Absorbed, Fin(1, 0 - 3), One, Fin(3, 2), MaxFloat}
Years   == {Neg(One), Zero, Fin(1, 0 - 1), One, Fin(3, 0), MaxFloat}
Freqs   == {0 - 1, 0, 1, 2, 4, 12}

Args(p, r, y, f) == [principal |-> p, annual_rate |-> r, years |-> y, frequency |-> f]

\* A grid of arguments around every validation boundary, and every rate of
\* the format with a few valid values of the other arguments.
Inputs ==
    {Args(p, r, y, f) : p \in Amounts, r \in Rates, y \in Years, f \in Freqs}
    \cup {Args(p, r, y, f) : p \in {One, Fin(3, 0), MaxFloat}, r \in NonNegFloats,
                              y \in {Fin(1, 0 - 1), One, Fin(3, 0)}, f \in {1, 2, 12}}

---------------------------------------------------------------------------
(* State *)

VARIABLES
    args,        \* the arguments of the call (for the CLI: the parsed command line)
    op,          \* the operation called, "none" before the call
    pc,          \* "start", "returned" (an engine call is back in its caller),
                 \* "composed" (the caller has passed the result to the inverse
                 \* operation), "exited" (the process has ended)
    result,      \* the outcome of the engine call: Ok(value) or Raise(type, message)
    result2,     \* the outcome of the inverse operation applied to result
    stdout,      \* lines printed on standard output
    stderr,      \* lines printed on the error stream
    exit_status, \* the exit status, once pc = "exited"
    frequency_given, \* whether the command line has the -f/--frequency flag
    calls,       \* the engine calls the subcommand handler has made, in order
    frames       \* for each thread that calls the engine: the frame of its call

vars == <<args, op, pc, result, result2, stdout, stderr, exit_status, frequency_given, calls,
          frames>>

None == [tag |-> "none", val |-> NaN, msg |-> ""]

Init ==
    /\ args \in Inputs
    /\ op = "none"
    /\ pc = "start"
    /\ result = None
    /\ result2 = None
    /\ stdout = << >>
    /\ stderr = << >>
    /\ exit_status = 0
    /\ frequency_given = FALSE
    /\ calls = << >>
    /\ frames = << >>

\* A caller calls an engine operation and gets its outcome back.
Return(name, r) ==
    /\ pc = "start"
    /\ op' = name
    /\ result' = r
    /\ pc' = "returned"
    /\ UNCHANGED <<args, result2, stdout, stderr, exit_status, frequency_given, calls, frames>>

CallAnnualToMonthly == Return("annual_to_monthly_rate", annual_to_monthly_rate(args.annual_rate))

CallMonthlyToAnnual == Return("monthly_to_annual_rate", monthly_to_annual_rate(args.annual_rate))

CallCompoundInterest ==
    Return("compound_interest",
           compound_interest(args.principal, args.annual_rate, args.years, args.frequency))

CallFutureValue ==
    Return("future_value",
           future_value(args.principal, args.annual_rate, args.years, args.frequency))

CallPresentValue ==
    Return("present_value",
           present_value(args.principal, args.annual_rate, args.years, args.frequency))

CallEffectiveAnnualRate ==
    Return("effective_annual_rate", effective_annual_rate(args.annual_rate, args.frequency))

CallContinuousCompounding ==
    Return("continuous_compounding",
           continuous_compounding(args.principal, args.annual_rate, args.years))

\* The round trips of the tests: the value an operation returned is passed
\* to its inverse with the same other arguments.
Compose(first, r) ==
    /\ pc = "returned"
    /\ op = first
    /\ IsOk(result)
    /\ result2' = r
    /\ pc' = "composed"
    /\ UNCHANGED <<args, op, result, stdout, stderr, exit_status, frequency_given, calls, frames>>

RoundtripPresentValue ==
    Compose("compound_interest",
            present_value(result.val, args.annual_rate, args.years, args.frequency))

RoundtripAnnual == Compose("annual_to_monthly_rate", monthly_to_annual_rate(result.val))

RoundtripMonthly == Compose("monthly_to_annual_rate", annual_to_monthly_rate(result.val))

\* main() parses the command line and dispatches to the handler of the
\* subcommand; the process ends when the handler returns or exits.  The
\* command line of 'compound' and 'present-value' has the -f flag or not;
\* c is the engine call of the handler.
Run(name, given, c, p) ==
    /\ pc = "start"
    /\ op' = name
    /\ frequency_given' = given
    /\ calls' = <<c>>
    /\ result' = p.call
    /\ stdout' = p.stdout
    /\ stderr' = p.stderr
    /\ exit_status' = p.status
    /\ pc' = "exited"
    /\ UNCHANGED <<args, result2, frames>>

RunAnnualToMonthly ==
    Run("cmd_annual_to_monthly", FALSE, AnnualToMonthlyCall(args), cmd_annual_to_monthly(args))

RunMonthlyToAnnual ==
    Run("cmd_monthly_to_annual", FALSE, MonthlyToAnnualCall(args), cmd_monthly_to_annual(args))

RunCompound ==
    \E given \in BOOLEAN :
        Run("cmd_compound_interest", given, CompoundCall(parse_args(args, given)),
            cmd_compound_interest(parse_args(args, given)))

RunPresentValue ==
    \E given \in BOOLEAN :
        Run("cmd_present_value", given, PresentValueCall(parse_args(args, given)),
            cmd_present_value(parse_args(args, given)))

Next ==
    \/ CallAnnualToMonthly
    \/ CallMonthlyToAnnual
    \/ CallCompoundInterest
    \/ CallFutureValue
    \/ CallPresentValue
    \/ CallEffectiveAnnualRate
    \/ CallContinuousCompounding
    \/ RoundtripPresentValue
    \/ RoundtripAnnual
    \/ RoundtripMonthly
    \/ RunAnnualToMonthly
    \/ RunMonthlyToAnnual
    \/ RunCompound
    \/ RunPresentValue

Spec == Init /\ [][Next]_vars

---------------------------------------------------------------------------
(* The names of the operations *)

EngineOps == {"annual_to_monthly_rate", "monthly_to_annual_rate", "compound_interest",
              "future_value", "present_value", "effective_annual_rate",
              "continuous_compounding"}
CliOps == {"cmd_annual_to_monthly", "cmd_monthly_to_annual", "cmd_compound_interest",
           "cmd_present_value"}
FourArgOps == {"compound_interest", "future_value", "present_value"}
RateOps == {"annual_to_monthly_rate", "monthly_to_annual_rate"}

---------------------------------------------------------------------------
(* Engine calls from several threads.  Each call runs in a frame of its    *)
(* own, which holds its parameters and its local variables; the module has *)
(* no variable outside the frames (compound_interest.py imports math and   *)
(* defines functions, nothing else).  The steps of the threads interleave. *)

NumThreads == 2
Threads == 1 .. NumThreads

\* The calls the threads make: every operation with valid arguments, the
\* operations with local variables with other valid arguments too, and two
\* calls with a frequency of 0.
ThreadCalls ==
    {<<name, Args(One, Fin(1, 0 - 3), Fin(3, 0), 2)>> : name \in EngineOps}
    \cup {<<name, Args(Fin(3, 0), One, One, 12)>> : name \in {"compound_interest", "present_value"}}
    \cup {<<name, Args(One, Fin(1, 0 - 3), One, 0)>> :
              name \in {"compound_interest", "effective_annual_rate"}}

\* The outcome of operation name on the arguments a.
Engine(name, a) ==
    CASE name = "annual_to_monthly_rate" -> annual_to_monthly_rate(a.annual_rate)
      [] name = "monthly_to_annual_rate" -> monthly_to_annual_rate(a.annual_rate)
      [] name = "compound_interest" ->
             compound_interest(a.principal, a.annual_rate, a.years, a.frequency)
      [] name = "future_value" ->
             future_value(a.principal, a.annual_rate, a.years, a.frequency)
      [] name = "present_value" ->
             present_value(a.principal, a.annual_rate, a.years, a.frequency)
      [] name = "effective_annual_rate" -> effective_annual_rate(a.annual_rate, a.frequency)
      [] name = "continuous_compounding" ->
             continuous_compounding(a.principal, a.annual_rate, a.years)

\* A thread that is in no call.
NoFrame ==
    [pc |-> "idle", name |-> "none", args |-> Args(Zero, Zero, Zero, 1),
     rate_per_period |-> NaN, total_periods |-> NaN, outcome |-> None]

\* The frame of a call once the checks at the head of the operation are
\* done: the parameters bound and the locals unassigned, or the failure
\* raised by the first check that fails.
NewFrame(name, a) ==
    IF Engine(name, a).tag = "ValueError"
    THEN [pc |-> "done", name |-> name, args |-> a,
          rate_per_period |-> NaN, total_periods |-> NaN, outcome |-> Engine(name, a)]
    ELSE [pc |-> "validated", name |-> name, args |-> a,
          rate_per_period |-> NaN, total_periods |-> NaN, outcome |-> None]

\* rate_per_period and total_periods kept in one place for all threads (a
\* module-level variable): every thread reads what the first one assigned.
Local_Global(fs, t, x) ==
    fs[1][x]

\* The local variable x of the call of thread t.
Local(fs, t, x) ==
    fs[t][x]

InitThreads ==
    /\ args = Args(Zero, Zero, Zero, 1)
    /\ op = "none"
    /\ pc = "start"
    /\ result = None
    /\ result2 = None
    /\ stdout = << >>
    /\ stderr = << >>
    /\ exit_status = 0
    /\ frequency_given = FALSE
    /\ calls = << >>
    /\ frames = [t \in Threads |-> NoFrame]

\* Thread t goes on with frame f.
Step(t, f) ==
    /\ frames' = [frames EXCEPT ![t] = f]
    /\ UNCHANGED <<args, op, pc, result, result2, stdout, stderr, exit_status,
                   frequency_given, calls>>

\* Thread t calls an operation, which checks its arguments.
Enter(t) ==
    /\ frames[t].pc = "idle"
    /\ \E c \in ThreadCalls : Step(t, NewFrame(c[1], c[2]))

\* Thread t, back from a call, repeats it with the same arguments.
Repeat(t) ==
    /\ frames[t].pc = "done"
    /\ Step(t, NewFrame(frames[t].name, frames[t].args))

\* rate_per_period = annual_rate / compounding_frequency
AssignRatePerPeriod(t) ==
    /\ frames[t].pc = "validated"
    /\ frames[t].name \in FourArgOps
    /\ Step(t, [frames[t] EXCEPT
                   !.pc = "rate",
                   !.rate_per_period = FDiv(frames[t].args.annual_rate,
                                            IntVal(frames[t].args.frequency))])

\* total_periods = compounding_frequency * years
AssignTotalPeriods(t) ==
    /\ frames[t].pc = "rate"
    /\ Step(t, [frames[t] EXCEPT
                   !.pc = "periods",
                   !.total_periods = FMul(IntVal(frames[t].args.frequency),
                                          frames[t].args.years)])

\* (1 + rate_per_period) ** total_periods, from the locals of thread t.
GrowthFactor(fs, t) ==
    PyPow(FAdd(One, Local(fs, t, "rate_per_period")), Local(fs, t, "total_periods"))

\* return principal * factor, or future_value_amount / factor
ReturnFromLocals(t) ==
    /\ frames[t].pc = "periods"
    /\ IF frames[t].name = "present_value"
       THEN Step(t, [frames[t] EXCEPT
                        !.pc = "done",
                        !.outcome = Over(frames[t].args.principal, GrowthFactor(frames, t))])
       ELSE Step(t, [frames[t] EXCEPT
                        !.pc = "done",
                        !.outcome = Times(frames[t].args.principal, GrowthFactor(frames, t))])

\* The operations whose body is one return statement.
ReturnExpression(t) ==
    /\ frames[t].pc = "validated"
    /\ frames[t].name \notin FourArgOps
    /\ Step(t, [frames[t] EXCEPT
                   !.pc = "done",
                   !.outcome = Engine(frames[t].name, frames[t].args)])

NextThreads ==
    \E t \in Threads :
        \/ Enter(t)
        \/ Repeat(t)
        \/ AssignRatePerPeriod(t)
        \/ AssignTotalPeriods(t)
        \/ ReturnFromLocals(t)
        \/ ReturnExpression(t)

SpecThreads == InitThreads /\ [][NextThreads]_vars

---------------------------------------------------------------------------
(* Properties *)

\* An engine call has returned to its caller.
Returned == op \in EngineOps /\ pc \in {"returned", "composed"}

IsNegative(x) == IsFin(x) /\ x.m < 0
IsPositive(x) == IsInf(x) \/ (IsFin(x) /\ x.m > 0)

\* Some argument the operation accepts is out of its domain.
OutOfDomain ==
    \/ IsNegative(args.annual_rate)
    \/ op \in FourArgOps \cup {"continuous_compounding"}
         /\ (IsNegative(args.principal) \/ IsNegative(args.years))
    \/ op \in FourArgOps \cup {"effective_annual_rate"} /\ args.frequency <= 0

\* C1: every engine operation rejects every out-of-domain argument it
\* accepts: a call with a negative principal / future value amount, rate or
\* years, or with a compounding frequency <= 0, ends in a ValueError and
\* returns no value, whatever the other arguments are.
C1_RejectsOutOfDomain ==
    Returned /\ OutOfDomain => result.tag = "ValueError"

\* The frequency alone is out of domain (0) and compound_interest has rejected it.
C1_Witness ==
    /\ Returned /\ op = "compound_interest"
    /\ args.frequency = 0
    /\ ~IsNegative(args.principal) /\ ~IsNegative(args.annual_rate) /\ ~IsNegative(args.years)
    /\ result.tag = "ValueError"

\* C2 (as claimed): every operation is total on its validated domain: a call
\* with principal / amount, rate and years >= 0 and frequency > 0 returns a
\* numeric result and never ends in a failure of any kind.
C2_TotalOnDomain ==
    Returned /\ ~OutOfDomain => IsOk(result)

\* C3: future_value is observationally identical to compound_interest: for
\* every argument tuple, valid or not, it returns the value compound_interest
\* returns or fails with the failure compound_interest fails with.
C3_FutureValueIsCompoundInterest ==
    Returned /\ op = "future_value" =>
        result = compound_interest(args.principal, args.annual_rate, args.years, args.frequency)

\* future_value has returned a value that depends on the frequency passed.
C3_Witness ==
    /\ Returned /\ op = "future_value" /\ IsOk(result)
    /\ args.frequency = 4
    /\ result # compound_interest(args.principal, args.annual_rate, args.years, 1)

\* The tolerances of the round trips are absolute: 1e-6 is about 2^33 and
\* 1e-10 about 2^20 units of the rounding error of binary64, 2^-53.  In the
\* format of the model the same number of units of 2^-MantBits.
TolExp(bits) == bits - MantBits

\* |d| <= b for integers d, b.
AbsLeq(d, b) == d <= b /\ 0 - d <= b

\* |a - b| <= 2^t for finite a, b, all in units of 2^e0.
WithinAt(a, b, t, e0) ==
    AbsLeq(a.m * (2 ^ (a.e - e0)) - b.m * (2 ^ (b.e - e0)), 2 ^ (t - e0))

\* |a - b| <= 2^t for finite a, b; a tolerance above the range of the format
\* only asks for finite values.
Within(a, b, t) ==
    /\ IsFin(a) /\ IsFin(b)
    /\ t > EMax \/ WithinAt(a, b, t, Min(Min(a.e, b.e), t))

\* C4 (as claimed): present_value inverts compound_interest: for all valid
\* arguments the future value compound_interest returns is a valid argument
\* of present_value, the composition never fails, and it gives the principal
\* back within the tolerance 1e-6.
C4_PresentValueInverts ==
    /\ Returned /\ op = "compound_interest" /\ ~OutOfDomain =>
           IsOk(result) /\ ~IsNegative(result.val)
    /\ pc = "composed" /\ op = "compound_interest" =>
           IsOk(result2) /\ Within(result2.val, args.principal, TolExp(33))

\* C5 (as claimed): annual_to_monthly_rate and monthly_to_annual_rate are
\* mutual inverses on rates >= 0: in both orders the first call returns a
\* rate >= 0, the second call does not reject it, and the rate comes back
\* (within 1e-10 for annual -> monthly -> annual).
C5_RateRoundtrip ==
    /\ Returned /\ op \in RateOps /\ ~OutOfDomain =>
           IsOk(result) /\ ~IsNegative(result.val)
    /\ pc = "composed" /\ op \in RateOps =>
           IsOk(result2) /\ Within(result2.val, args.annual_rate, TolExp(20))

\* C6: a zero rate or zero years leaves the amount unchanged exactly: for
\* every principal >= 0 and valid frequency compound_interest(P, 0, years, f)
\* = P and compound_interest(P, rate, 0, f) = P, and likewise
\* continuous_compounding(P, 0, years) = P = continuous_compounding(P, rate, 0).
C6_ZeroRateOrYears ==
    Returned /\ op \in {"compound_interest", "continuous_compounding"} /\ ~OutOfDomain
        /\ (args.annual_rate = Zero \/ args.years = Zero)
    => result = Ok(args.principal)

\* compound_interest at a positive rate over zero years, twelve periods a
\* year, has returned the principal.
C6_Witness ==
    /\ Returned /\ op = "compound_interest"
    /\ args.years = Zero /\ IsPositive(args.annual_rate) /\ args.frequency = 12
    /\ IsPositive(args.principal)
    /\ result = Ok(args.principal)

\* The unit in the last place of a finite float x > 0.
UlpExp(x) == Max(TopExp(x), EMin) - MantBits + 1

\* C7 (as claimed): effective_annual_rate(r, 1) = r exactly, for all r >= 0.
C7_ExactAtFrequencyOne ==
    Returned /\ op = "effective_annual_rate" /\ ~OutOfDomain /\ args.frequency = 1
    => result = Ok(args.annual_rate)

\* C7 (amended): effective_annual_rate(r, 1) returns, for every r >= 0, a
\* value that differs from r by at most one unit in the last place of 1 + r.
C7_WithinRounding ==
    Returned /\ op = "effective_annual_rate" /\ ~OutOfDomain /\ args.frequency = 1
    => /\ IsOk(result)
       /\ Within(result.val, args.annual_rate, UlpExp(FAdd(One, args.annual_rate)))

\* effective_annual_rate(r, 1) has returned a value that is not r.
C7_Witness ==
    /\ Returned /\ op = "effective_annual_rate" /\ args.frequency = 1
    /\ IsOk(result) /\ IsPositive(result.val)
    /\ result.val # args.annual_rate

\* res is a value greater than the value r.
Exceeds(res, r) == IsOk(res) /\ FLess(r, res.val)

\* C8 (as claimed): effective_annual_rate(r, n) is strictly increasing in n
\* for every r > 0: effective_annual_rate(r, n) < effective_annual_rate(r, m)
\* for all n < m, and effective_annual_rate(r, n) > r for n > 1.
C8_StrictlyIncreasing ==
    Returned /\ op = "effective_annual_rate" /\ ~OutOfDomain /\ IsPositive(args.annual_rate)
    => /\ IsOk(result)
       /\ args.frequency > 1 => FLess(args.annual_rate, result.val)
       /\ \A m \in Freqs : m > args.frequency =>
              Exceeds(effective_annual_rate(args.annual_rate, m), result.val)

\* C9 (as claimed): annual_to_monthly_rate is the compounding-equivalent rate
\* and not the division by 12: for annual_rate > 0 the result m satisfies
\* 0 < m < annual_rate / 12, and for annual_rate = 0 the result is 0.
C9_BelowNaiveDivision ==
    Returned /\ op = "annual_to_monthly_rate" /\ ~OutOfDomain
    => /\ IsOk(result)
       /\ args.annual_rate = Zero => result.val = Zero
       /\ IsPositive(args.annual_rate) =>
              /\ IsPositive(result.val)
              /\ IsFin(result.val)
              /\ Diff(Canon(12 * result.val.m, result.val.e), args.annual_rate) < 0

\* C10: process exit belongs to the CLI only: when the engine call of a
\* subcommand handler ends in a validation failure the handler has written
\* the failure message to the error stream and the process has ended with a
\* non-zero status; an engine operation called directly returns to its
\* caller and ends no process.
C10_ExitBelongsToCli ==
    /\ op \in CliOps /\ result.tag = "ValueError" =>
           /\ pc = "exited"
           /\ exit_status # 0
           /\ stderr = <<ErrLine(result.msg)>>
    /\ op \in EngineOps =>
           pc # "exited" /\ exit_status = 0 /\ stdout = << >> /\ stderr = << >>

\* The present-value handler's engine call has been rejected.
C10_Witness ==
    /\ op = "cmd_present_value" /\ result.tag = "ValueError"
    /\ pc = "exited" /\ exit_status = 1
    /\ Len(stderr) = 1

\* The user's rate as a decimal fraction, and the frequency of the command
\* line: the value of its -f flag, 1 without the flag.
UserFraction == FDiv(args.annual_rate, IntVal(100))
UserFrequency == IF frequency_given THEN args.frequency ELSE 1

\* The only engine call of the process is c, and result is its outcome.
CalledOnly(c, r) == calls = <<c>> /\ result = r

\* C11: each subcommand handler makes exactly one engine call, with the
\* user's rate divided by 100 and every other argument unchanged: 'compound'
\* calls compound_interest(principal, annual_rate / 100, years, frequency),
\* 'present-value' calls present_value(future_value, annual_rate / 100,
\* years, frequency), with frequency 1 when the -f flag is absent, and the
\* two rate subcommands call the matching conversion with rate / 100.
C11_OneEngineCall ==
    /\ op = "cmd_annual_to_monthly" =>
           CalledOnly(EngineCall("annual_to_monthly_rate", <<UserFraction>>),
                      annual_to_monthly_rate(UserFraction))
    /\ op = "cmd_monthly_to_annual" =>
           CalledOnly(EngineCall("monthly_to_annual_rate", <<UserFraction>>),
                      monthly_to_annual_rate(UserFraction))
    /\ op = "cmd_compound_interest" =>
           CalledOnly(EngineCall("compound_interest",
                                 <<args.principal, UserFraction, args.years, UserFrequency>>),
                      compound_interest(args.principal, UserFraction, args.years,
                                        UserFrequency))
    /\ op = "cmd_present_value" =>
           CalledOnly(EngineCall("present_value",
                                 <<args.principal, UserFraction, args.years, UserFrequency>>),
                      present_value(args.principal, UserFraction, args.years,
                                    UserFrequency))

\* 'compound' without the -f flag, where the flag's value would have been
\* another frequency: the call is made with frequency 1 and a rate that is
\* not the rate typed, and it returns a value.
C11_Witness ==
    /\ op = "cmd_compound_interest" /\ pc = "exited"
    /\ ~frequency_given /\ args.frequency = 12
    /\ Len(calls) = 1 /\ calls[1].actuals[4] = 1
    /\ calls[1].actuals[2] # args.annual_rate
    /\ IsOk(result) /\ Len(stdout) = 6

\* Line l prints the quantity q: it is q under one of the formats of cli.py.
Prints(l, q) ==
    \/ l = format_currency(l.label, q)
    \/ l = format_percentage(l.label, q, 2)
    \/ l = format_percentage(l.label, q, 4)
    \/ l = ReprLine(l.label, q)

\* Line l prints one of the user's inputs (the rate as a decimal fraction)
\* or the value the engine call returned.
PrintsInputOrResult(l) ==
    \/ l = IntLine(l.label, UserFrequency)
    \/ \E q \in {args.principal, UserFraction, args.years, result.val} : Prints(l, q)

\* A subcommand handler has printed its lines.
Printed == op \in CliOps /\ pc = "exited" /\ IsOk(result)

\* C12 as stated: the command-line surface computes nothing: every quantity
\* a handler prints is a user input (the rate as a decimal fraction) or the
\* value returned by the engine call.
C12_NoCliArithmetic ==
    Printed => \A i \in 1 .. Len(stdout) : PrintsInputOrResult(stdout[i])

\* The interest line of 'compound': the engine's result minus the principal.
InterestLine == format_currency("interest", FSub(result.val, args.principal))

\* C12 as amended: every quantity a handler prints is a user input or the
\* value returned by the engine call, except the last line of 'compound',
\* the interest, which the handler computes as result - principal.
C12_OnlyInterestComputed ==
    Printed => \A i \in 1 .. Len(stdout) :
                   \/ PrintsInputOrResult(stdout[i])
                   \/ /\ op = "cmd_compound_interest"
                      /\ i = Len(stdout)
                      /\ stdout[i] = InterestLine

\* 'compound' has printed an interest that is neither an input nor the
\* engine's result, next to five lines that are.
C12_Witness ==
    /\ Printed /\ op = "cmd_compound_interest"
    /\ Len(stdout) = 6
    /\ stdout[6] = InterestLine
    /\ ~PrintsInputOrResult(stdout[6])
    /\ \A i \in 1 .. 5 : PrintsInputOrResult(stdout[i])

\* Thread t is back from its call.
Done(t) == frames[t].pc = "done"

\* C13: engine operations are stateless and safe under concurrent calls.
\* Under any interleaving of the steps of calls made from several threads,
\* the outcome of each call (the value returned or the failure raised) is
\* the outcome of that call executed alone, and two calls of the same
\* operation with the same arguments have the same outcome.
C13_SameAsAlone ==
    /\ \A t \in Threads :
           Done(t) => frames[t].outcome = Engine(frames[t].name, frames[t].args)
    /\ \A t, u \in Threads :
           Done(t) /\ Done(u) /\ frames[t].name = frames[u].name
                   /\ frames[t].args = frames[u].args
               => frames[t].outcome = frames[u].outcome

\* Thread 2 has returned a value from compound_interest while thread 1 is
\* inside present_value with other arguments and other values in its locals.
C13_Witness ==
    /\ Done(2) /\ frames[2].name = "compound_interest" /\ IsOk(frames[2].outcome)
    /\ frames[1].pc = "periods" /\ frames[1].name = "present_value"
    /\ frames[1].args # frames[2].args
    /\ frames[1].rate_per_period # frames[2].rate_per_period
    /\ frames[1].total_periods # frames[2].total_periods

\* The handler has printed the value the engine returned: on its last line,
\* or for 'compound' on the line before the interest.
ResultPrinted ==
    \/ /\ op # "cmd_compound_interest"
       /\ stdout # << >>
       /\ Prints(stdout[Len(stdout)], result.val)
    \/ /\ op = "cmd_compound_interest"
       /\ Len(stdout) = 6
       /\ Prints(stdout[5], result.val)

\* The command line gives the engine an argument outside its domain.
RejectedInput ==
    \/ IsNegative(UserFraction)
    \/ /\ op \in {"cmd_compound_interest", "cmd_present_value"}
       /\ \/ IsNegative(args.principal)
          \/ IsNegative(args.years)
          \/ UserFrequency <= 0

\* C14: a failing subcommand produces no partial output.  The engine call
\* precedes every print, so when the engine rejects the input nothing is on
\* standard output, the error stream holds the message alone and the exit
\* status is 1; when the engine accepts the input the handler has printed
\* its lines, the result among them, and the process has not ended with a
\* non-zero status.
C14_AcceptedInputPrints ==
    op \in CliOps =>
        /\ Len(calls) = 1
        /\ RejectedInput =>
               /\ result.tag = "ValueError"
               /\ stdout = << >>
               /\ stderr = <<ErrLine(result.msg)>>
               /\ exit_status = 1
        /\ ~RejectedInput =>
               /\ ResultPrinted
               /\ stderr = << >>
               /\ exit_status = 0

\* The part of C14 that holds: output is all or nothing.  A rejected call
\* leaves standard output empty, the message alone on the error stream and
\* status 1; a call that returns a value has its lines printed, an empty
\* error stream and status 0; and whatever ends a subcommand with a
\* non-zero status, an OverflowError of the engine included, standard
\* output is empty.
C14_AllOrNothing ==
    op \in CliOps =>
        /\ Len(calls) = 1
        /\ result.tag = "ValueError" =>
               /\ stdout = << >>
               /\ stderr = <<ErrLine(result.msg)>>
               /\ exit_status = 1
        /\ IsOk(result) =>
               /\ ResultPrinted
               /\ stderr = << >>
               /\ exit_status = 0
        /\ exit_status # 0 => stdout = << >>
        /\ exit_status = 0 => IsOk(result)

=============================================================================
